---- MODULE Spec2Model ----
(***************************************************************************)
(* aecShaper (src/aecSpace/aecShaper.py): generators of closed 2D boundary *)
(* loops.  Every public method is a pure function of its arguments, so the *)
(* state machine is "one call per step": an action picks the arguments of  *)
(* a method from bounded sets and records the method, the arguments, what  *)
(* it returned, and how many times it called makeBox and the union engine. *)
(*                                                                         *)
(* Numbers.  The program computes in floats.  Every real v is represented  *)
(* here by the integer 20*v (fixed point, 1.0 = 20), and the argument sets *)
(* are chosen so that every product by 0.5, 0.3 or an axis fraction is an  *)
(* exact integer; no rounding happens in the division below.               *)
(* Regular-polygon vertices are kept symbolic (centre, radius, step k of   *)
(* n), standing for  centre + radius * (cos, sin)(pi/2 + 2*pi*k/n).        *)
(***************************************************************************)
EXTENDS Integers, Sequences, FiniteSets

VARIABLES op, args, result, boxCalls, addCalls

vars == <<op, args, result, boxCalls, addCalls>>

----------------------------------------------------------------------------
(* Bounds of the argument sets *)

MaxSize == 2
MaxWidth == 2
MaxAxis == 2
MaxRadius == 9
MaxSides == 9
MaxOff == 3

----------------------------------------------------------------------------
(* Values *)

Pt(x, y) == [x |-> x, y |-> y]

PolarPt(c, r, k, n) == [cx |-> c.x, cy |-> c.y, radius |-> r, step |-> k, sides |-> n]

\* an optional argument: <<>> is Python's None, <<v>> a supplied number
Absent == <<>>

Some(v) == <<v>>

\* what a method hands back: a point list, None, or False
Loop(pts) == [kind |-> "loop", pts |-> pts]

NoneVal == [kind |-> "None", pts |-> <<>>]

FalseVal == [kind |-> "False", pts |-> <<>>]

\* a method's outcome together with the calls it made
Out(res, boxes, adds) == [res |-> res, boxes |-> boxes, adds |-> adds]

Abs(v) == IF v < 0 THEN -v ELSE v

Max(a, b) == IF a >= b THEN a ELSE b

Min(a, b) == IF a <= b THEN a ELSE b

\* v * 0.5
Half(v) == (v * 10) \div 20

\* v * 0.3
ThreeTenths(v) == (v * 6) \div 20

\* a * b for two fixed-point numbers
Mul(a, b) == (a * b) \div 20

----------------------------------------------------------------------------
(* makeBox *)

makeBoxClockwise(origin, xSize, ySize) ==
    << Pt(origin.x, origin.y),
       Pt(origin.x, origin.y + ySize),
       Pt(origin.x + xSize, origin.y + ySize),
       Pt(origin.x + xSize, origin.y) >>

makeBox(origin, xSize, ySize) ==
    << Pt(origin.x, origin.y),
       Pt(origin.x + xSize, origin.y),
       Pt(origin.x + xSize, origin.y + ySize),
       Pt(origin.x, origin.y + ySize) >>

----------------------------------------------------------------------------
(* makePolygon, makeCylinder *)

\* int(abs(sides)) on a fixed-point number: truncation of a non-negative value
IntAbs(sides) == Abs(sides) \div 20

PolygonSides(sides) == IF IntAbs(sides) < 3 THEN 3 ELSE IntAbs(sides)

PolygonPointsOneMore(origin, radius, n) ==
    [k \in 1..(n + 1) |-> PolarPt(origin, radius, k - 1, n)]

\* the loop "while count < sides": vertex count+1 at step count
PolygonPoints(origin, radius, n) == [k \in 1..n |-> PolarPt(origin, radius, k - 1, n)]

makePolygon(origin, radius, sides) ==
    IF Abs(radius) = 0
    THEN FalseVal
    ELSE Loop(PolygonPoints(origin, Abs(radius), PolygonSides(sides)))

\* lines 95-96; the literal 3 is 60 in fixed point
CylinderSides(radius) == IF radius < 60 THEN 60 ELSE radius

makeCylinder(origin, radius) == makePolygon(origin, radius, CylinderSides(radius))

----------------------------------------------------------------------------
(* __add: the union engine.                                                *)
(* shapely.Polygon / orient / unary_union are modelled on the arrangement  *)
(* of the candidates' own coordinates: the grid lines are the x and y      *)
(* values occurring in the candidates, a cell <<i, j>> is the rectangle    *)
(* between grid lines i, i+1 and j, j+1.  Every candidate the builders     *)
(* pass is rectilinear, so each cell is wholly inside or outside it.       *)

RECURSIVE SortSet(_)
SortSet(S) ==
    IF S = {} THEN << >>
    ELSE LET m == CHOOSE v \in S : \A w \in S : v <= w
         IN  <<m>> \o SortSet(S \ {m})

Range(f) == {f[k] : k \in DOMAIN f}

\* shapely.Polygon(points): the region enclosed by the ring, whichever way
\* it winds (orient() only rewinds it).  Even-odd ray cast to the right of
\* the point (cx2/2, cy2/2), given in doubled coordinates.
Inside(loop, cx2, cy2) ==
    LET n == Len(loop)
        crossing(k) ==
            LET a == loop[k]
                b == loop[(k % n) + 1]
            IN  /\ a.x = b.x
                /\ 2 * a.x > cx2
                /\ Min(2 * a.y, 2 * b.y) < cy2
                /\ cy2 < Max(2 * a.y, 2 * b.y)
    IN  Cardinality({k \in 1..n : crossing(k)}) % 2 = 1

Cells(xs, ys) == (1..(Len(xs) - 1)) \X (1..(Len(ys) - 1))

PolygonCells(loop, xs, ys) ==
    {c \in Cells(xs, ys) :
        Inside(loop, xs[c[1]] + xs[c[1] + 1], ys[c[2]] + ys[c[2] + 1])}

\* unary_union: the set union of the candidate regions
UnionCells(loops, xs, ys) ==
    UNION {PolygonCells(loops[i], xs, ys) : i \in DOMAIN loops}

\* two cells share a side of positive length
Adjacent(c, d) == Abs(c[1] - d[1]) + Abs(c[2] - d[2]) = 1

RECURSIVE Flood(_, _)
Flood(seen, U) ==
    LET more == seen \cup {c \in U : \E d \in seen : Adjacent(c, d)}
    IN  IF more = seen THEN seen ELSE Flood(more, U)

\* the union is one polygon when its interior is connected: pieces that
\* are apart, or meet in a corner point only, make a MultiPolygon
Connected(U) ==
    /\ U # {}
    /\ Flood({CHOOSE c \in U : TRUE}, U) = U

TypeIsAnything(U) == U # {}

\* line 38: type(boundary) == shapely.polygon.Polygon
TypeIsPolygon(U) == Connected(U)

\* the sides of the union's cells that have the union on one side only,
\* directed so that the interior is on the right (GEOS builds the shell of
\* an overlay result clockwise; __add orients its candidates, not its result)
BoundaryEdges(U) ==
         {<< <<c[1], c[2]>>, <<c[1], c[2] + 1>> >> :
              c \in {d \in U : <<d[1] - 1, d[2]>> \notin U}}
    \cup {<< <<c[1], c[2] + 1>>, <<c[1] + 1, c[2] + 1>> >> :
              c \in {d \in U : <<d[1], d[2] + 1>> \notin U}}
    \cup {<< <<c[1] + 1, c[2] + 1>>, <<c[1] + 1, c[2]>> >> :
              c \in {d \in U : <<d[1] + 1, d[2]>> \notin U}}
    \cup {<< <<c[1] + 1, c[2]>>, <<c[1], c[2]>> >> :
              c \in {d \in U : <<d[1], d[2] - 1>> \notin U}}

RECURSIVE Walk(_, _, _, _)
Walk(E, start, cur, acc) ==
    LET e == CHOOSE f \in E : f[1] = cur
    IN  IF e[2] = start THEN acc
        ELSE Walk(E \ {e}, start, e[2], Append(acc, e[2]))

\* boundary.exterior: the ring through the lowest of the leftmost nodes,
\* as grid nodes, without the closing repeat
ExteriorNodes(U) ==
    LET E == BoundaryEdges(U)
        from == {e[1] : e \in E}
        start == CHOOSE p \in from :
                    \A q \in from : p[1] < q[1] \/ (p[1] = q[1] /\ p[2] <= q[2])
    IN  Walk(E, start, start, <<start>>)

\* list(boundary.exterior.coords)[:-1]: the ring's vertices.  A node of the
\* ring is a vertex where the ring turns, and where a vertex of a candidate
\* lies on it (the overlay keeps the nodes of its input).
ExteriorCoords(U, xs, ys, verts) ==
    LET r == ExteriorNodes(U)
        m == Len(r)
        prev(k) == r[((k + m - 2) % m) + 1]
        next(k) == r[(k % m) + 1]
        turns(k) == <<r[k][1] - prev(k)[1], r[k][2] - prev(k)[2]>>
                        # <<next(k)[1] - r[k][1], next(k)[2] - r[k][2]>>
        point(k) == Pt(xs[r[k][1]], ys[r[k][2]])
        kept == SortSet({k \in 1..m : turns(k) \/ point(k) \in verts})
    IN  [i \in 1..Len(kept) |-> point(kept[i])]

Add(pointSet) ==
    IF \E i \in DOMAIN pointSet : pointSet[i].kind # "loop"
    THEN NoneVal    \* iterating a candidate that is no list raises; caught
    ELSE LET loops == [i \in DOMAIN pointSet |-> pointSet[i].pts]
             verts == UNION {Range(loops[i]) : i \in DOMAIN loops}
             xs == SortSet({p.x : p \in verts})
             ys == SortSet({p.y : p \in verts})
             U == UnionCells(loops, xs, ys)
         IN  IF ~TypeIsPolygon(U) THEN NoneVal
             ELSE Loop(ExteriorCoords(U, xs, ys, verts))

----------------------------------------------------------------------------
(* The composite builders *)

DefaultOnlyIfAbsent(v, d) == IF v = Absent THEN d ELSE v[1]

\* "if not xWidth: xWidth = ...": None and 0 are the falsy arguments
Default(v, d) == IF v = Absent \/ v = Some(0) THEN d ELSE v[1]

CrossArmXAtAxis(origin, xSize, xWidth, yAxis) ==
    Pt(origin.x + Mul(yAxis, xSize), origin.y)

\* line 79
CrossArmX(origin, xSize, xWidth, yAxis) ==
    Pt(origin.x + (Mul(yAxis, xSize) - Half(xWidth)), origin.y)

\* line 80
CrossArmY(origin, ySize, yDepth, xAxis) ==
    Pt(origin.x, origin.y + (Mul(xAxis, ySize) - Half(yDepth)))

makeCross(origin, xSize, ySize, xWidth, yDepth, xAxis, yAxis) ==
    LET w == Default(xWidth, Half(xSize))
        d == Default(yDepth, Half(ySize))
        armX == makeBox(CrossArmX(origin, xSize, w, yAxis), w, ySize)
        armY == makeBox(CrossArmY(origin, ySize, d, xAxis), xSize, d)
    IN  Out(Add(<<Loop(armX), Loop(armY)>>), 2, 1)

LRejectsAboveOnly(xSize, ySize, xWidth, yDepth) == xWidth > xSize \/ yDepth > ySize

LRejectsFromHalf(xSize, ySize, xWidth, yDepth) ==
    xWidth >= Half(xSize) \/ yDepth >= ySize

\* lines 148-149
LRejects(xSize, ySize, xWidth, yDepth) == xWidth >= xSize \/ yDepth >= ySize

makeL(origin, xSize, ySize, xWidth, yDepth) ==
    LET w == Default(xWidth, Half(xSize))
        d == Default(yDepth, Half(ySize))
        armX == makeBox(origin, w, ySize)
        armY == makeBox(origin, xSize, d)
    IN  IF LRejects(xSize, ySize, w, d) THEN Out(NoneVal, 0, 0)
        ELSE Out(Add(<<Loop(armX), Loop(armY)>>), 2, 1)

\* lines 199-200
TRejects(xSize, ySize, xWidth, yDepth) == xWidth >= xSize \/ yDepth >= ySize

makeT(origin, xSize, ySize, xWidth, yDepth) ==
    LET w == Default(xWidth, Half(xSize))
        d == Default(yDepth, Half(ySize))
        arm1 == makeBox(Pt(origin.x, origin.y + (ySize - d)), xSize, d)
        arm2 == makeBox(Pt(origin.x + (Half(xSize) - Half(w)), origin.y), w, ySize)
    IN  IF TRejects(xSize, ySize, w, d) THEN Out(NoneVal, 0, 0)
        ELSE Out(Add(<<Loop(arm1), Loop(arm2)>>), 2, 1)

\* lines 121-123
HRejects(xSize, ySize, xWidth1, xWidth2, yDepth) ==
    xWidth1 >= Half(xSize) \/ xWidth2 >= Half(xSize) \/ yDepth >= ySize

makeH(origin, xSize, ySize, xWidth1, xWidth2, yDepth) ==
    LET w1 == Default(xWidth1, ThreeTenths(xSize))
        w2 == Default(xWidth2, ThreeTenths(xSize))
        d == Default(yDepth, ThreeTenths(ySize))
        arm1 == makeBox(origin, w1, ySize)
        arm2 == makeBox(Pt(origin.x + (xSize - w2), origin.y), w2, ySize)
        arm3 == makeBox(Pt(origin.x, origin.y + (Half(ySize) - Half(d))), xSize, d)
    IN  IF HRejects(xSize, ySize, w1, w2, d) THEN Out(NoneVal, 0, 0)
        ELSE Out(Add(<<Loop(arm1), Loop(arm2), Loop(arm3)>>), 3, 1)

\* lines 226-228
URejects(xSize, ySize, xWidth1, xWidth2, yDepth) ==
    xWidth1 >= Half(xSize) \/ xWidth2 >= Half(xSize) \/ yDepth >= ySize

makeU(origin, xSize, ySize, xWidth1, xWidth2, yDepth) ==
    LET w1 == Default(xWidth1, ThreeTenths(xSize))
        w2 == Default(xWidth2, ThreeTenths(xSize))
        d == Default(yDepth, ThreeTenths(ySize))
        pointsL == makeL(origin, xSize, ySize, Some(w1), Some(d))
        pointsU == makeBox(Pt(origin.x + (xSize - w2), origin.y), w2, ySize)
    IN  IF URejects(xSize, ySize, w1, w2, d) THEN Out(NoneVal, 0, 0)
        ELSE Out(Add(<<pointsL.res, Loop(pointsU)>>),
                 pointsL.boxes + 1, pointsL.adds + 1)

----------------------------------------------------------------------------
(* Argument sets *)

Origins == {Pt(0, 0), Pt(-20, 10)}

\* overall extents of a composite: positive, whole numbers
Sizes == {20 * k : k \in 1..MaxSize}

\* sizes handed to makeBox directly: any sign
BoxSizes == {20 * k : k \in (-1)..MaxSize}

\* arm widths and depths: omitted, or a multiple of 0.5 of any sign
Widths == {Absent} \cup {Some(10 * k) : k \in (-1)..MaxWidth}

\* axis fractions of makeCross: multiples of 0.5
Axes == {10 * k : k \in (-1)..MaxAxis}

\* radii: multiples of 0.5 of either sign
Radii == {10 * k : k \in (-MaxRadius)..MaxRadius}

\* side counts: multiples of 0.5
SideCounts == {10 * k : k \in (-1)..MaxSides}

\* where the second rectangle handed to __add sits: multiples of 0.5
Offsets == {Pt(10 * i, 10 * j) : i \in 0..MaxOff, j \in 0..MaxOff}

----------------------------------------------------------------------------
(* The state machine.  The object keeps no state between calls, so a call  *)
(* starts from the idle state, and the caller takes the result before the  *)
(* next call is made.                                                      *)

NoArgs == [origin |-> Pt(0, 0)]

Idle == op = "idle"

Init ==
    /\ op = "idle"
    /\ args = NoArgs
    /\ result = NoneVal
    /\ boxCalls = 0
    /\ addCalls = 0

Returns(out) ==
    /\ result' = out.res
    /\ boxCalls' = out.boxes
    /\ addCalls' = out.adds

CallBox ==
    /\ Idle
    /\ \E o \in Origins, xSize \in BoxSizes, ySize \in BoxSizes :
        /\ op' = "makeBox"
        /\ args' = [origin |-> o, xSize |-> xSize, ySize |-> ySize]
        /\ Returns(Out(Loop(makeBox(o, xSize, ySize)), 0, 0))

CallPolygon ==
    /\ Idle
    /\ \E o \in Origins, radius \in Radii, sides \in SideCounts :
        /\ op' = "makePolygon"
        /\ args' = [origin |-> o, radius |-> radius, sides |-> sides]
        /\ Returns(Out(makePolygon(o, radius, sides), 0, 0))

CallCylinder ==
    /\ Idle
    /\ \E o \in Origins, radius \in Radii :
        /\ op' = "makeCylinder"
        /\ args' = [origin |-> o, radius |-> radius]
        /\ Returns(Out(makeCylinder(o, radius), 0, 0))

CallCross ==
    /\ Idle
    /\ \E o \in Origins, xSize \in Sizes, ySize \in Sizes,
       xWidth \in Widths, yDepth \in Widths, xAxis \in Axes, yAxis \in Axes :
        /\ op' = "makeCross"
        /\ args' = [origin |-> o, xSize |-> xSize, ySize |-> ySize,
                    xWidth |-> xWidth, yDepth |-> yDepth,
                    xAxis |-> xAxis, yAxis |-> yAxis]
        /\ Returns(makeCross(o, xSize, ySize, xWidth, yDepth, xAxis, yAxis))

CallH ==
    /\ Idle
    /\ \E o \in Origins, xSize \in Sizes, ySize \in Sizes,
       xWidth1 \in Widths, xWidth2 \in Widths, yDepth \in Widths :
        /\ op' = "makeH"
        /\ args' = [origin |-> o, xSize |-> xSize, ySize |-> ySize,
                    xWidth1 |-> xWidth1, xWidth2 |-> xWidth2, yDepth |-> yDepth]
        /\ Returns(makeH(o, xSize, ySize, xWidth1, xWidth2, yDepth))

CallL ==
    /\ Idle
    /\ \E o \in Origins, xSize \in Sizes, ySize \in Sizes,
       xWidth \in Widths, yDepth \in Widths :
        /\ op' = "makeL"
        /\ args' = [origin |-> o, xSize |-> xSize, ySize |-> ySize,
                    xWidth |-> xWidth, yDepth |-> yDepth]
        /\ Returns(makeL(o, xSize, ySize, xWidth, yDepth))

CallT ==
    /\ Idle
    /\ \E o \in Origins, xSize \in Sizes, ySize \in Sizes,
       xWidth \in Widths, yDepth \in Widths :
        /\ op' = "makeT"
        /\ args' = [origin |-> o, xSize |-> xSize, ySize |-> ySize,
                    xWidth |-> xWidth, yDepth |-> yDepth]
        /\ Returns(makeT(o, xSize, ySize, xWidth, yDepth))

CallU ==
    /\ Idle
    /\ \E o \in Origins, xSize \in Sizes, ySize \in Sizes,
       xWidth1 \in Widths, xWidth2 \in Widths, yDepth \in Widths :
        /\ op' = "makeU"
        /\ args' = [origin |-> o, xSize |-> xSize, ySize |-> ySize,
                    xWidth1 |-> xWidth1, xWidth2 |-> xWidth2, yDepth |-> yDepth]
        /\ Returns(makeU(o, xSize, ySize, xWidth1, xWidth2, yDepth))

\* __add handed two rectangles directly
CallAdd ==
    /\ Idle
    /\ \E o \in Origins, at \in Offsets, xSize \in Sizes, ySize \in Sizes :
        LET first == makeBox(o, 20, 20)
            second == makeBox(Pt(o.x + at.x, o.y + at.y), xSize, ySize)
        IN  /\ op' = "add"
            /\ args' = [origin |-> o, first |-> first, second |-> second]
            /\ Returns(Out(Add(<<Loop(first), Loop(second)>>), 0, 1))

\* the caller takes the result; nothing of the call is kept
Release ==
    /\ ~Idle
    /\ op' = "idle"
    /\ args' = NoArgs
    /\ result' = NoneVal
    /\ boxCalls' = 0
    /\ addCalls' = 0

Next ==
    \/ Release
    \/ CallBox
    \/ CallPolygon
    \/ CallCylinder
    \/ CallCross
    \/ CallH
    \/ CallL
    \/ CallT
    \/ CallU
    \/ CallAdd

Spec == Init /\ [][Next]_vars

----------------------------------------------------------------------------
(* Geometry of a returned loop, used to state the properties *)

PublicOps == {"makeBox", "makePolygon", "makeCylinder", "makeCross",
              "makeH", "makeL", "makeT", "makeU"}

Composites == {"makeCross", "makeH", "makeL", "makeT", "makeU"}

IsPolar(pts) == \A k \in DOMAIN pts : "radius" \in DOMAIN pts[k]

\* twice the shoelace signed area of a loop of cartesian points
RECURSIVE ShoelaceFrom(_, _)
ShoelaceFrom(pts, k) ==
    IF k > Len(pts) THEN 0
    ELSE LET a == pts[k]
             b == pts[(k % Len(pts)) + 1]
         IN  (a.x * b.y - b.x * a.y) + ShoelaceFrom(pts, k + 1)

SignedArea2(pts) == ShoelaceFrom(pts, 1)

\* the common part of two axis-parallel segments a1-a2 and b1-b2 is the
\* common part of their bounding boxes
MeetWidth(a1, a2, b1, b2) ==
    Min(Max(a1.x, a2.x), Max(b1.x, b2.x)) - Max(Min(a1.x, a2.x), Min(b1.x, b2.x))

MeetHeight(a1, a2, b1, b2) ==
    Min(Max(a1.y, a2.y), Max(b1.y, b2.y)) - Max(Min(a1.y, a2.y), Min(b1.y, b2.y))

\* a rectilinear loop is simple: no vertex twice, neighbouring sides meet in
\* their common vertex only, other sides do not meet
SimpleRectilinear(pts) ==
    LET n == Len(pts)
        nxt(k) == (k % n) + 1
    IN  /\ n >= 4
        /\ \A j, k \in 1..n : j # k => pts[j] # pts[k]
        /\ \A j, k \in 1..n :
              j < k =>
                LET w == MeetWidth(pts[j], pts[nxt(j)], pts[k], pts[nxt(k)])
                    h == MeetHeight(pts[j], pts[nxt(j)], pts[k], pts[nxt(k)])
                IN  IF nxt(j) = k \/ nxt(k) = j
                    THEN w = 0 /\ h = 0
                    ELSE w < 0 \/ h < 0

\* a regular polygon as makePolygon lays it out: positive radius, at least
\* three vertices, vertex k at step k-1 of as many equal turns to the left
RegularPolygon(pts) ==
    /\ Len(pts) >= 3
    /\ \A k \in DOMAIN pts :
          pts[k].radius > 0 /\ pts[k].sides = Len(pts) /\ pts[k].step = k - 1

CounterClockwise(pts) ==
    IF IsPolar(pts) THEN RegularPolygon(pts) ELSE SignedArea2(pts) > 0

Simple(pts) ==
    IF IsPolar(pts) THEN RegularPolygon(pts) ELSE SimpleRectilinear(pts)

WithinBox(pts, origin, xSize, ySize) ==
    \A k \in DOMAIN pts :
        /\ origin.x <= pts[k].x /\ pts[k].x <= origin.x + xSize
        /\ origin.y <= pts[k].y /\ pts[k].y <= origin.y + ySize

\* the width/depth arguments of a composite builder
WidthFields(o) ==
    IF o \in {"makeH", "makeU"} THEN {"xWidth1", "xWidth2", "yDepth"}
    ELSE {"xWidth", "yDepth"}

\* the call o(a), as the machine records it
Recall(o, a) ==
    CASE o = "makeCross" ->
            makeCross(a.origin, a.xSize, a.ySize, a.xWidth, a.yDepth, a.xAxis, a.yAxis)
      [] o = "makeH" ->
            makeH(a.origin, a.xSize, a.ySize, a.xWidth1, a.xWidth2, a.yDepth)
      [] o = "makeL" -> makeL(a.origin, a.xSize, a.ySize, a.xWidth, a.yDepth)
      [] o = "makeT" -> makeT(a.origin, a.xSize, a.ySize, a.xWidth, a.yDepth)
      [] o = "makeU" ->
            makeU(a.origin, a.xSize, a.ySize, a.xWidth1, a.xWidth2, a.yDepth)

Recorded == Out(result, boxCalls, addCalls)

----------------------------------------------------------------------------
(* C1: for xSize > 0 and ySize > 0, makeBox returns exactly the four points *)
(* (x,y), (x+xSize,y), (x+xSize,y+ySize), (x,y+ySize) in that order, and    *)
(* the shoelace signed area of the loop is positive and equals xSize*ySize. *)
C1_BoxCorners ==
    (op = "makeBox" /\ args.xSize > 0 /\ args.ySize > 0) =>
        LET o == args.origin
        IN  /\ result.kind = "loop"
            /\ result.pts = << [x |-> o.x, y |-> o.y],
                               [x |-> o.x + args.xSize, y |-> o.y],
                               [x |-> o.x + args.xSize, y |-> o.y + args.ySize],
                               [x |-> o.x, y |-> o.y + args.ySize] >>
            /\ SignedArea2(result.pts) > 0
            /\ SignedArea2(result.pts) = 2 * args.xSize * args.ySize

C1_Witness ==
    /\ op = "makeBox" /\ args.xSize = 40 /\ args.ySize = 20
    /\ args.origin = Pt(-20, 10)
    /\ Len(result.pts) = 4

(* C2: makePolygon(origin, 0, n) reports failure, and the failure is the   *)
(* None every other generator returns: a public operation returns a point  *)
(* loop or None, never a third kind of value.                              *)
C2_FailureIsNone ==
    /\ (op = "makePolygon" /\ args.radius = 0) => result = NoneVal
    /\ op \in PublicOps => result.kind \in {"loop", "None"}

(* C3: every loop a public generator returns is counter-clockwise, simple  *)
(* and stored without a closing repeat of its first vertex.                *)
C3_LoopsAreCCWSimpleOpen ==
    (op \in PublicOps /\ result.kind = "loop") =>
        /\ CounterClockwise(result.pts)
        /\ Simple(result.pts)
        /\ result.pts[1] # result.pts[Len(result.pts)]

(* C4 as stated: in the composite builders a width/depth argument that is  *)
(* missing or non-positive (zero or negative) is replaced by its default,  *)
(* so the call equals the call with that argument omitted.                 *)
C4_NonPositiveMeansDefault ==
    op \in Composites =>
        \A f \in WidthFields(op) :
            (args[f] = Absent \/ args[f][1] <= 0) =>
                Recorded = Recall(op, [args EXCEPT ![f] = Absent])

(* C4 as amended: in the composite builders a width/depth argument that is *)
(* missing or zero is replaced by its default, so the call equals the call *)
(* with that argument omitted; a negative argument is used as given.       *)
C4_ZeroMeansDefault ==
    op \in Composites =>
        \A f \in WidthFields(op) :
            (args[f] = Absent \/ args[f][1] = 0) =>
                Recorded = Recall(op, [args EXCEPT ![f] = Absent])

C4_Witness ==
    /\ op = "makeL" /\ args.xWidth = Some(0) /\ args.yDepth = Some(10)
    /\ args.xSize = 40
    /\ result.kind = "loop"
    /\ Pt(args.origin.x + 20, args.origin.y + args.ySize) \in Range(result.pts)

(* C5: makeL and makeT return None whenever xWidth >= xSize or yDepth >=   *)
(* ySize, makeH and makeU whenever xWidth1 >= 0.5*xSize or xWidth2 >=      *)
(* 0.5*xSize or yDepth >= ySize (values after defaulting), and they return *)
(* before any sub-rectangle is built and before the union engine is used.  *)
C5_InfeasibleShortCircuits ==
    LET rejected == result = NoneVal /\ boxCalls = 0 /\ addCalls = 0
    IN  /\ op \in {"makeL", "makeT"} =>
            LET w == Default(args.xWidth, Half(args.xSize))
                d == Default(args.yDepth, Half(args.ySize))
            IN  (w >= args.xSize \/ d >= args.ySize) => rejected
        /\ op \in {"makeH", "makeU"} =>
            LET w1 == Default(args.xWidth1, ThreeTenths(args.xSize))
                w2 == Default(args.xWidth2, ThreeTenths(args.xSize))
                d == Default(args.yDepth, ThreeTenths(args.ySize))
            IN  (2 * w1 >= args.xSize \/ 2 * w2 >= args.xSize \/ d >= args.ySize)
                    => rejected

C5_Witness ==
    /\ op = "makeL" /\ args.xWidth = Some(args.xSize) /\ args.yDepth = Absent
    /\ result = NoneVal /\ boxCalls = 0 /\ addCalls = 0

(* C6: the union engine returns None when the union of the candidates is   *)
(* not one connected polygon: two rectangles that neither overlap nor      *)
(* share a boundary segment (apart, or meeting in a corner point only)     *)
(* give None, not a multi-part result and not the loop of one piece.       *)
C6_DisjointGivesNone ==
    op = "add" =>
        LET a == args.first
            b == args.second
            w == MeetWidth(a[1], a[3], b[1], b[3])
            h == MeetHeight(a[1], a[3], b[1], b[3])
        IN  ~(w >= 0 /\ h >= 0 /\ w + h > 0) => result = NoneVal

C6_Witness ==
    /\ op = "add"
    /\ args.first[3] = args.second[1]
    /\ result = NoneVal

(* C7 as stated: the loop makeCylinder(origin, r) returns has max(3, r)    *)
(* vertices, for integer and non-integer r and for negative r.             *)
C7_VerticesAreMaxOf3AndRadius ==
    (op = "makeCylinder" /\ result.kind = "loop") =>
        20 * Len(result.pts) = Max(60, args.radius)

(* C7 as amended: the loop makeCylinder(origin, r) returns has             *)
(* max(3, floor(r)) vertices: r itself when r is an integer >= 3, r cut    *)
(* down to an integer when it is not, and 3 for every r < 3.               *)
C7_VerticesAreMaxOf3AndFloorRadius ==
    (op = "makeCylinder" /\ result.kind = "loop") =>
        Len(result.pts) = Max(3, args.radius \div 20)

C7_Witness ==
    /\ op = "makeCylinder" /\ args.radius = 70
    /\ result.kind = "loop" /\ Len(result.pts) = 3

(* C8: for xSize > 0 and ySize > 0, makeCross with default widths and axis *)
(* fractions returns one simple loop of exactly 12 vertices, of area       *)
(* xWidth*ySize + xSize*yDepth - xWidth*yDepth with xWidth = 0.5*xSize and *)
(* yDepth = 0.5*ySize.                                                     *)
C8_DefaultCross ==
    (/\ op = "makeCross"
     /\ args.xWidth = Absent /\ args.yDepth = Absent
     /\ args.xAxis = 10 /\ args.yAxis = 10) =>
        LET w == Half(args.xSize)
            d == Half(args.ySize)
        IN  /\ result.kind = "loop"
            /\ Len(result.pts) = 12
            /\ Simple(result.pts)
            /\ Abs(SignedArea2(result.pts))
                 = 2 * (w * args.ySize + args.xSize * d - w * d)

C8_Witness ==
    /\ op = "makeCross"
    /\ args.xWidth = Absent /\ args.yDepth = Absent
    /\ args.xAxis = 10 /\ args.yAxis = 10
    /\ args.xSize = 40 /\ args.ySize = 20
    /\ Len(result.pts) = 12

(* C9: every loop a composite builder returns lies within the box given by *)
(* origin, xSize and ySize, for all accepted arguments.                    *)
C9_LoopWithinBox ==
    (op \in Composites /\ result.kind = "loop") =>
        WithinBox(result.pts, args.origin, args.xSize, args.ySize)

(* C10: feasible parameters never fail: with xSize, ySize > 0 and strictly *)
(* positive widths and depths that pass the builder's validation, makeL,   *)
(* makeT, makeH and makeU return a loop, and the makeL call inside makeU   *)
(* returns a loop as well.                                                 *)
C10_FeasibleNeverFails ==
    /\ op \in {"makeL", "makeT"} =>
        LET w == Default(args.xWidth, Half(args.xSize))
            d == Default(args.yDepth, Half(args.ySize))
        IN  (0 < w /\ w < args.xSize /\ 0 < d /\ d < args.ySize)
                => result.kind = "loop"
    /\ op \in {"makeH", "makeU"} =>
        LET w1 == Default(args.xWidth1, ThreeTenths(args.xSize))
            w2 == Default(args.xWidth2, ThreeTenths(args.xSize))
            d == Default(args.yDepth, ThreeTenths(args.ySize))
        IN  (/\ 0 < w1 /\ 2 * w1 < args.xSize
             /\ 0 < w2 /\ 2 * w2 < args.xSize
             /\ 0 < d /\ d < args.ySize) =>
                /\ result.kind = "loop"
                /\ op = "makeU" =>
                    /\ makeL(args.origin, args.xSize, args.ySize,
                             Some(w1), Some(d)).res.kind = "loop"
                    /\ boxCalls = 3 /\ addCalls = 2

C10_Witness ==
    /\ op = "makeU"
    /\ args.xWidth1 = Some(10) /\ args.xWidth2 = Some(10) /\ args.yDepth = Some(10)
    /\ args.xSize = 40 /\ args.ySize = 20
    /\ result.kind = "loop" /\ addCalls = 2

====
